---- MODULE Spec2Model ----
(***************************************************************************)
(* A model of tor-daily-report.py: one run of main(), which collects a     *)
(* relay report over the Tor control channel (get_relay_report), renders  *)
(* it (format_report_text), chooses a subject line and dispatches the     *)
(* text by mail (send_email) or to standard output.                       *)
(*                                                                         *)
(* The control channel (stem) and the mail transport (smtplib) are the    *)
(* environment: every call either succeeds with a value drawn from a      *)
(* small set or fails with an exception.  A stem query that is given a    *)
(* default returns that default instead of raising.                       *)
(*                                                                         *)
(* Strings that the program builds are sequences of fragments, so that    *)
(* the substring test of format_report_text is a search for a fragment.   *)
(***************************************************************************)
EXTENDS Integers, Sequences, FiniteSets, TLC

VARIABLES
    pc,           \* the statement main() is at
    args_stdout,  \* the --stdout flag
    report,       \* the report dictionary
    controller,   \* the control-channel session: "none", "open", "closed"
    calls,        \* the calls made to stem and smtplib, in order
    failed,       \* the calls among them that failed
    report_text,  \* the lines of the formatted report
    subject,      \* the subject line
    server,       \* the mail session
    mailbox,      \* the messages the mail transport accepted
    stdout,       \* what was printed
    sent          \* what send_email returned

vars == <<pc, args_stdout, report, controller, calls, failed,
          report_text, subject, server, mailbox, stdout, sent>>

----------------------------------------------------------------------------
(* Configuration *)

SMTP_USE_TLS == TRUE
EMAIL_TO == "tor.relay@activist.com"
RELAY_NICKNAME == "OnionPie"
MIN_CONNECTIONS_WARN == 100
MIN_CONNECTIONS_CRIT == 50

----------------------------------------------------------------------------
(* Bounds and the values the environment answers with *)

(* connection counts are taken within Margin of 0 and of each threshold *)
Margin == 2

Messages == {"timed out"}
Timestamps == {1700000000}
Hostnames == {"pi"}
Versions == {"0.4.8.9"}
Uptimes == {0, 3661}
ReadCounters == {1152}
WrittenCounters == {5242880}
Fingerprints == {"9695DFC35FFEB861329B9F1AB04C46397020CE31"}
Nicknames == {"MyRelay"}
Addresses == {"203.0.113.7"}
OrPorts == {"443"}
CircuitReplies == {"0", "1"}
KnownFlags == <<"Guard", "Running", "Valid">>
Bandwidths == {5000}
Published == {1699990000}
BytesLeft == {"1000 2000"}
IntervalEnds == {"2026-11-01 00:00:00"}

----------------------------------------------------------------------------
(* Dictionaries: a report is a function from the keys it holds *)

Has(d, k) == k \in DOMAIN d

Get(d, k, default) == IF k \in DOMAIN d THEN d[k] ELSE default

Put(d, k, v) == [x \in DOMAIN d \cup {k} |-> IF x = k THEN v ELSE d[x]]

BaseKeys == {"generated", "hostname", "warnings", "errors"}

----------------------------------------------------------------------------
(* format_bytes, for an integer 0 <= num_bytes < 2^30: the unit and the    *)
(* value in hundredths, rounded as "%.2f" rounds (to nearest, ties to     *)
(* even; the divisions by 1024.0 are exact in binary floating point).     *)

Abs(n) == IF n < 0 THEN -n ELSE n

Units == <<"B", "KB", "MB", "GB", "TB">>

RECURSIVE Pow1024(_)
Pow1024(k) == IF k = 0 THEN 1 ELSE 1024 * Pow1024(k - 1)

RoundHalfEven(num, den) ==
    LET q == num \div den
        r == num % den
    IN  IF 2 * r < den THEN q
        ELSE IF 2 * r > den THEN q + 1
        ELSE IF q % 2 = 0 THEN q ELSE q + 1

RECURSIVE UnitIndex(_, _)
UnitIndex(num_bytes, i) ==
    IF i > Len(Units) THEN i
    ELSE IF Abs(num_bytes) \div Pow1024(i - 1) < 1024 THEN i
    ELSE UnitIndex(num_bytes, i + 1)

format_bytes(num_bytes) ==
    LET i == UnitIndex(num_bytes, 1)
        d == Pow1024(i - 1)
        h == (Abs(num_bytes) \div d) * 100 + RoundHalfEven((Abs(num_bytes) % d) * 100, d)
    IN  [hundredths |-> IF num_bytes < 0 THEN -h ELSE h,
         unit |-> IF i > Len(Units) THEN "PB" ELSE Units[i]]

(* format_duration: the parts that are joined by a space *)
format_duration(seconds) ==
    LET days == seconds \div 86400
        r1 == seconds % 86400
        hours == r1 \div 3600
        r2 == r1 % 3600
        minutes == r2 \div 60
        secs == r2 % 60
        p1 == IF days > 0 THEN << <<days, "d">> >> ELSE <<>>
        p2 == IF hours > 0 THEN Append(p1, <<hours, "h">>) ELSE p1
        p3 == IF minutes > 0 THEN Append(p2, <<minutes, "m">>) ELSE p2
    IN  IF secs > 0 \/ p3 = <<>> THEN Append(p3, <<secs, "s">>) ELSE p3

----------------------------------------------------------------------------
(* Diagnostics *)

FailedToConnect == "Failed to connect"

ConnectError(e) == <<FailedToConnect, " to Tor control port: ", e>>

NetworkStatusError(e) == <<"Could not get network status: ", e>>

UnableToRetrieve == <<"(unable to retrieve)">>

CriticalWarning(count) ==
    [kind |-> "CRITICAL", count |-> count, threshold |-> MIN_CONNECTIONS_CRIT]

WarnWarning(count) ==
    [kind |-> "WARNING", count |-> count, threshold |-> MIN_CONNECTIONS_WARN]

MissingFlagsWarning(missing) == [kind |-> "MISSING_FLAGS", flags |-> missing]

(* the threshold check with two independent tests *)
ThresholdWarningsBothTiers(count) ==
    (IF count < MIN_CONNECTIONS_CRIT THEN <<CriticalWarning(count)>> ELSE <<>>)
    \o (IF count < MIN_CONNECTIONS_WARN THEN <<WarnWarning(count)>> ELSE <<>>)

(* the warnings the threshold check appends for a connection count *)
ThresholdWarnings(count) ==
    IF count < MIN_CONNECTIONS_CRIT THEN <<CriticalWarning(count)>>
    ELSE IF count < MIN_CONNECTIONS_WARN THEN <<WarnWarning(count)>>
    ELSE <<>>

expected_flags == {"Running", "Valid"}

Range(s) == {s[i] : i \in DOMAIN s}

(* the warnings the expected-flags check appends for report["flags"] *)
FlagWarnings(flags) ==
    IF flags # <<>>
    THEN LET missing == expected_flags \ Range(flags)
         IN  IF missing # {} THEN <<MissingFlagsWarning(missing)>> ELSE <<>>
    ELSE <<>>

(* orconn-status with n entries and b blank lines, stripped and split at   *)
(* the newlines: strip() removes every leading and trailing blank line,   *)
(* so a blank line survives only between two entries (after the first),   *)
(* and the empty string splits into one empty line                        *)
OrconnLines(n, b) ==
    IF n = 0 THEN <<"">>
    ELSE IF n = 1 THEN <<"conn">>
    ELSE [i \in 1..(n + b) |-> IF b = 1 /\ i = 2 THEN "" ELSE "conn"]

ConnectionCounts ==
    (0..Margin)
    \cup ((MIN_CONNECTIONS_CRIT - Margin)..(MIN_CONNECTIONS_CRIT + Margin))
    \cup ((MIN_CONNECTIONS_WARN - Margin)..(MIN_CONNECTIONS_WARN + Margin))

OrconnReplies == {OrconnLines(n, b) : n \in ConnectionCounts, b \in {0, 1}}

FlagLists ==
    {SelectSeq(KnownFlags, LAMBDA f : f \in S) : S \in SUBSET Range(KnownFlags)}

(* the non-empty lines of orconn-status *)
Connections(orconn_status) == SelectSeq(orconn_status, LAMBDA line : line # "")

----------------------------------------------------------------------------
(* get_relay_report *)

(* a try block that covers the connection alone *)
OuterTryConnectOnly == {"from_port"}

(* the control-channel calls that sit inside the try block of lines 96-172 *)
OuterTry ==
    {"from_port", "authenticate", "version", "uptime", "traffic/read",
     "traffic/written", "fingerprint", "Nickname", "address", "ORPort",
     "status/circuit-established", "orconn-status", "network_status",
     "accounting/enabled", "accounting/bytes-left", "accounting/interval-end"}

AppendError(d, e) == Put(d, "errors", Append(d["errors"], e))

AppendWarnings(d, ws) == Put(d, "warnings", d["warnings"] \o ws)

(* leaving the with block closes the session it opened *)
ExitWith(c) == IF c = "open" THEN "closed" ELSE c

(* a call raises and nothing nearer than the outer handler catches it:     *)
(* the with block is left and the handler of lines 172-173 records it; an  *)
(* exception no handler covers leaves get_relay_report                     *)
Raise(call, e) ==
    /\ calls' = Append(calls, call)
    /\ failed' = failed \cup {call}
    /\ controller' = ExitWith(controller)
    /\ IF call \in OuterTry
       THEN /\ report' = AppendError(report, ConnectError(e))
            /\ pc' = "format"
       ELSE /\ report' = report
            /\ pc' = "raised"
    /\ UNCHANGED <<args_stdout, report_text, subject, server, mailbox, stdout,
                   sent>>

(* a call answers: the report becomes rep and collection goes on at next *)
Answer(call, rep, next) ==
    /\ calls' = Append(calls, call)
    /\ failed' = failed
    /\ report' = rep
    /\ pc' = next
    /\ UNCHANGED <<args_stdout, controller, report_text, subject, server,
                   mailbox, stdout, sent>>

(* a call that was given a default fails: stem answers with the default *)
AnswerDefault(call, rep, next) ==
    /\ calls' = Append(calls, call)
    /\ failed' = failed \cup {call}
    /\ report' = rep
    /\ pc' = next
    /\ UNCHANGED <<args_stdout, controller, report_text, subject, server,
                   mailbox, stdout, sent>>

NewReport ==
    /\ pc = "main"
    /\ \E t \in Timestamps, h \in Hostnames :
          report' = [generated |-> t, hostname |-> h,
                     warnings |-> <<>>, errors |-> <<>>]
    /\ pc' = "from_port"
    /\ UNCHANGED <<args_stdout, controller, calls, failed, report_text,
                   subject, server, mailbox, stdout, sent>>

FromPort ==
    /\ pc = "from_port"
    /\ \/ /\ controller' = "open"
          /\ calls' = Append(calls, "from_port")
          /\ pc' = "authenticate"
          /\ UNCHANGED <<args_stdout, report, failed, report_text, subject,
                         server, mailbox, stdout, sent>>
       \/ \E e \in Messages : Raise("from_port", e)

Authenticate ==
    /\ pc = "authenticate"
    /\ \/ Answer("authenticate", report, "version")
       \/ \E e \in Messages : Raise("authenticate", e)

GetVersion ==
    /\ pc = "version"
    /\ \/ \E v \in Versions :
            Answer("version", Put(report, "version", v), "uptime")
       \/ \E e \in Messages : Raise("version", e)

GetUptime ==
    /\ pc = "uptime"
    /\ \/ \E u \in Uptimes :
            Answer("uptime",
                   Put(Put(report, "uptime_seconds", u),
                       "uptime_human", format_duration(u)),
                   "traffic/read")
       \/ \E e \in Messages : Raise("uptime", e)

GetTrafficRead ==
    /\ pc = "traffic/read"
    /\ \/ \E n \in ReadCounters :
            Answer("traffic/read", Put(report, "bytes_read", n),
                   "traffic/written")
       \/ \E e \in Messages : Raise("traffic/read", e)

GetTrafficWritten ==
    /\ pc = "traffic/written"
    /\ \/ \E n \in WrittenCounters :
            Answer("traffic/written",
                   Put(Put(Put(report, "bytes_written", n),
                           "traffic_read_human",
                           format_bytes(report["bytes_read"])),
                       "traffic_written_human", format_bytes(n)),
                   "fingerprint")
       \/ \E e \in Messages : Raise("traffic/written", e)

GetFingerprint ==
    /\ pc = "fingerprint"
    /\ \/ \E f \in Fingerprints :
            Answer("fingerprint", Put(report, "fingerprint", f), "Nickname")
       \/ \E e \in Messages : Raise("fingerprint", e)

GetNickname ==
    /\ pc = "Nickname"
    /\ \/ \E n \in Nicknames :
            Answer("Nickname", Put(report, "nickname", n), "address")
       \/ AnswerDefault("Nickname", Put(report, "nickname", RELAY_NICKNAME),
                        "address")

GetAddress ==
    /\ pc = "address"
    /\ \/ \E a \in Addresses :
            Answer("address", Put(report, "address", a), "ORPort")
       \/ AnswerDefault("address", Put(report, "address", "unknown"),
                        "ORPort")

GetOrPort ==
    /\ pc = "ORPort"
    /\ \/ \E p \in OrPorts :
            Answer("ORPort", Put(report, "or_port", p),
                   "status/circuit-established")
       \/ AnswerDefault("ORPort", Put(report, "or_port", "9001"),
                        "status/circuit-established")

GetCircuitEstablished ==
    /\ pc = "status/circuit-established"
    /\ \/ \E r \in CircuitReplies :
            Answer("status/circuit-established",
                   Put(report, "circuits_established", r = "1"),
                   "orconn-status")
       \/ \E e \in Messages : Raise("status/circuit-established", e)

GetOrconnStatus ==
    /\ pc = "orconn-status"
    /\ \/ \E orconn_status \in OrconnReplies :
            Answer("orconn-status",
                   Put(report, "connection_count",
                       Len(Connections(orconn_status))),
                   "check_thresholds")
       \/ AnswerDefault("orconn-status",
                        Put(report, "connection_count",
                            Len(Connections(OrconnLines(0, 0)))),
                        "check_thresholds")

CheckThresholds ==
    /\ pc = "check_thresholds"
    /\ report' = AppendWarnings(report,
                                ThresholdWarnings(report["connection_count"]))
    /\ pc' = "network_status"
    /\ UNCHANGED <<args_stdout, controller, calls, failed, report_text,
                   subject, server, mailbox, stdout, sent>>

GetNetworkStatus ==
    /\ pc = "network_status"
    /\ \/ \E fl \in FlagLists, bw \in Bandwidths, pub \in Published :
            Answer("network_status",
                   Put(Put(Put(report, "flags", fl), "bandwidth", bw),
                       "published", pub),
                   "check_flags")
       \/ \E e \in Messages :
            AnswerDefault("network_status",
                          AppendError(Put(report, "flags", UnableToRetrieve),
                                      NetworkStatusError(e)),
                          "check_flags")

CheckFlags ==
    /\ pc = "check_flags"
    /\ report' = AppendWarnings(report, FlagWarnings(Get(report, "flags", <<>>)))
    /\ pc' = "accounting"
    /\ UNCHANGED <<args_stdout, controller, calls, failed, report_text,
                   subject, server, mailbox, stdout, sent>>

(* the accounting block: every failure in it is swallowed *)
Accounting(made, failing, rep) ==
    /\ calls' = calls \o made
    /\ failed' = failed \cup failing
    /\ report' = rep
    /\ pc' = "close"
    /\ UNCHANGED <<args_stdout, controller, report_text, subject, server,
                   mailbox, stdout, sent>>

GetAccounting ==
    /\ pc = "accounting"
    /\ \/ Accounting(<<"accounting/enabled">>, {}, report)
       \/ Accounting(<<"accounting/enabled">>, {"accounting/enabled"}, report)
       \/ \E left \in BytesLeft, end \in IntervalEnds :
            Accounting(<<"accounting/enabled", "accounting/bytes-left",
                         "accounting/interval-end">>, {},
                       Put(report, "accounting",
                           [bytes_left |-> left, interval_end |-> end]))
       \/ Accounting(<<"accounting/enabled", "accounting/bytes-left">>,
                     {"accounting/bytes-left"}, report)
       \/ Accounting(<<"accounting/enabled", "accounting/bytes-left",
                       "accounting/interval-end">>,
                     {"accounting/interval-end"}, report)

CloseController ==
    /\ pc = "close"
    /\ controller' = ExitWith(controller)
    /\ pc' = "format"
    /\ UNCHANGED <<args_stdout, report, calls, failed, report_text, subject,
                   server, mailbox, stdout, sent>>

----------------------------------------------------------------------------
(* format_report_text: the lines that are joined by newlines *)

Rule(ch, n) == [kind |-> "rule", ch |-> ch, n |-> n]

Blank == [kind |-> "blank"]

Heading(name, suffix) == [kind |-> "heading", text |-> name, suffix |-> suffix]

Field(label, value) == [kind |-> "field", label |-> label, value |-> value]

AlertLine(warning) == [kind |-> "alert", text |-> warning]

ErrorLine(error) == [kind |-> "error", text |-> <<"(x) ">> \o error]

(* a time rendered by strftime under a format *)
Strftime(t, fmt) == [time |-> t, format |-> fmt]

(* a rate whose rendering is that of format_bytes on the quotient *)
Rate(bytes, seconds) == [bytes |-> bytes, seconds |-> seconds, per |-> "/s"]

(* "Failed to connect" in str(errors) *)
MentionsFailedToConnect(errors) ==
    \E i \in DOMAIN errors : \E j \in DOMAIN errors[i] :
        errors[i][j] = FailedToConnect

HeaderLines(r) ==
    << Rule("=", 60),
       Field("TOR RELAY REPORT", Get(r, "nickname", "Unknown")),
       Field("Generated", Strftime(r["generated"], "%Y-%m-%d %H:%M:%S")),
       Field("Host", Get(r, "hostname", "unknown")),
       Rule("=", 60),
       Blank >>

AlertLines(r) ==
    LET warnings == Get(r, "warnings", <<>>)
    IN  IF warnings # <<>>
        THEN <<Heading("ALERTS", <<>>), Rule("-", 40)>>
             \o [i \in 1..Len(warnings) |-> AlertLine(warnings[i])]
             \o <<Blank>>
        ELSE <<>>

ErrorLines(r) ==
    LET errors == Get(r, "errors", <<>>)
    IN  IF errors # <<>>
        THEN <<Heading("ERRORS", <<>>), Rule("-", 40)>>
             \o [i \in 1..Len(errors) |-> ErrorLine(errors[i])]
             \o <<Blank>>
        ELSE <<>>

(* the test made on the first error alone *)
StopsAfterFirstError(r) ==
    /\ Get(r, "errors", <<>>) # <<>>
    /\ MentionsFailedToConnect(<<r["errors"][1]>>)

(* the test of lines 199 and 206 that ends the text after the errors *)
StopsAfterErrors(r) ==
    /\ Get(r, "errors", <<>>) # <<>>
    /\ MentionsFailedToConnect(r["errors"])

StatusLines(r) ==
    << Heading("STATUS", <<>>),
       Rule("-", 40),
       Field("Circuits",
             IF Has(r, "circuits_established") /\ r["circuits_established"]
             THEN "(ok) Established" ELSE "(x) NOT Established"),
       Field("Connections", Get(r, "connection_count", "N/A")),
       Field("Uptime", Get(r, "uptime_human", "N/A")),
       Field("Tor Version", Get(r, "version", "N/A")),
       Blank >>

IdentityLines(r) ==
    << Heading("RELAY IDENTITY", <<>>),
       Rule("-", 40),
       Field("Nickname", Get(r, "nickname", "N/A")),
       Field("Address",
             <<Get(r, "address", "N/A"), ":", Get(r, "or_port", "N/A")>>),
       Field("Fingerprint", Get(r, "fingerprint", "N/A")),
       Blank >>

FlagLines(r) ==
    LET flags == Get(r, "flags", <<>>)
    IN  << Heading("CONSENSUS FLAGS", <<>>),
           Rule("-", 40),
           IF flags # <<>> THEN Field("Flags", flags)
           ELSE Field("Flags", <<"(none)">>),
           Blank >>

TrafficLines(r) ==
    LET uptime == Get(r, "uptime_seconds", 0)
    IN  << IF uptime > 0
           THEN Heading("TRAFFIC SINCE RESTART",
                        <<Strftime(r["generated"] - uptime, "%m/%d/%Y %H:%M")>>)
           ELSE Heading("TRAFFIC SINCE RESTART", <<>>),
           Rule("-", 40),
           Field("Read", Get(r, "traffic_read_human", "N/A")),
           Field("Written", Get(r, "traffic_written_human", "N/A")) >>
        \o (IF uptime > 0
            THEN << Field("Avg Read", Rate(Get(r, "bytes_read", 0), uptime)),
                    Field("Avg Write", Rate(Get(r, "bytes_written", 0), uptime)) >>
            ELSE <<>>)
        \o <<Blank>>

FooterLines(r) ==
    << Rule("-", 60),
       Field("Relay search",
             <<"https://metrics.torproject.org/rs.html#details/",
               Get(r, "fingerprint", "")>>),
       Blank >>

format_report_text(r) ==
    IF StopsAfterErrors(r)
    THEN HeaderLines(r) \o AlertLines(r) \o ErrorLines(r)
    ELSE HeaderLines(r) \o AlertLines(r) \o ErrorLines(r) \o StatusLines(r)
         \o IdentityLines(r) \o FlagLines(r) \o TrafficLines(r)
         \o FooterLines(r)

----------------------------------------------------------------------------
(* main, after the report is collected *)

FormatReport ==
    /\ pc = "format"
    /\ report_text' = format_report_text(report)
    /\ pc' = "subject"
    /\ UNCHANGED <<args_stdout, report, controller, calls, failed, subject,
                   server, mailbox, stdout, sent>>

(* the indicator with the errors tested first *)
status_emoji_errors_first(r) ==
    IF Get(r, "errors", <<>>) # <<>> THEN "error"
    ELSE IF Get(r, "warnings", <<>>) # <<>> THEN "warning"
    ELSE "ok"

(* the indicator of lines 302-307 *)
status_emoji(r) ==
    IF Get(r, "warnings", <<>>) # <<>> THEN "warning"
    ELSE IF Get(r, "errors", <<>>) # <<>> THEN "error"
    ELSE "ok"

SubjectLine ==
    /\ pc = "subject"
    /\ subject' = <<status_emoji(report), " Tor Relay Report: ",
                    Get(report, "nickname", RELAY_NICKNAME)>>
    /\ pc' = IF args_stdout THEN "print" ELSE "smtp_connect"
    /\ UNCHANGED <<args_stdout, report, controller, calls, failed,
                   report_text, server, mailbox, stdout, sent>>

Notice(text) == [kind |-> "notice", text |-> text]

Body(text) == [kind |-> "body", text |-> text]

PrintReport ==
    /\ pc = "print"
    /\ stdout' = Append(stdout, Body(report_text))
    /\ pc' = "done"
    /\ UNCHANGED <<args_stdout, report, controller, calls, failed,
                   report_text, subject, server, mailbox, sent>>

----------------------------------------------------------------------------
(* send_email *)

(* a step of the mail session succeeds *)
SmtpOk(call, srv, next) ==
    /\ calls' = Append(calls, call)
    /\ failed' = failed
    /\ server' = srv
    /\ pc' = next
    /\ UNCHANGED <<args_stdout, report, controller, report_text, subject,
                   stdout>>

(* the mail-session calls that sit inside the try block of lines 275-285 *)
SendEmailTry == {"SMTP", "starttls", "login", "sendmail", "quit"}

(* a step of the mail session raises: the handler of lines 286-288 prints  *)
(* the failure and send_email returns False; srv is the session the       *)
(* failure leaves behind; an exception the handler does not cover leaves  *)
(* main                                                                    *)
SmtpRaise(call, e, srv) ==
    /\ calls' = Append(calls, call)
    /\ failed' = failed \cup {call}
    /\ server' = srv
    /\ IF call \in SendEmailTry
       THEN /\ stdout' = Append(stdout, Notice(<<"Failed to send email: ", e>>))
            /\ sent' = "False"
            /\ pc' = "send_result"
       ELSE /\ stdout' = stdout
            /\ sent' = sent
            /\ pc' = "raised"
    /\ UNCHANGED <<args_stdout, report, controller, report_text, subject,
                   mailbox>>

SmtpConnect ==
    /\ pc = "smtp_connect"
    /\ \/ /\ SmtpOk("SMTP", "connected",
                    IF SMTP_USE_TLS THEN "starttls" ELSE "login")
          /\ UNCHANGED <<mailbox, sent>>
       \/ \E e \in Messages : SmtpRaise("SMTP", e, "none")

StartTls ==
    /\ pc = "starttls"
    /\ \/ /\ SmtpOk("starttls", "encrypted", "login")
          /\ UNCHANGED <<mailbox, sent>>
       \/ \E e \in Messages : SmtpRaise("starttls", e, server)
       \/ \E e \in Messages : SmtpRaise("starttls", e, "dropped")

Login ==
    /\ pc = "login"
    /\ \/ /\ SmtpOk("login", "authenticated", "sendmail")
          /\ UNCHANGED <<mailbox, sent>>
       \/ \E e \in Messages : SmtpRaise("login", e, server)
       \/ \E e \in Messages : SmtpRaise("login", e, "dropped")

SendMail ==
    /\ pc = "sendmail"
    /\ \/ /\ SmtpOk("sendmail", server, "quit")
          /\ mailbox' = Append(mailbox,
                               [subject |-> subject, body |-> report_text])
          /\ UNCHANGED sent
       \/ \E e \in Messages : SmtpRaise("sendmail", e, server)
       \/ \E e \in Messages : SmtpRaise("sendmail", e, "dropped")

Quit ==
    /\ pc = "quit"
    /\ \/ /\ SmtpOk("quit", "quit", "send_result")
          /\ sent' = "True"
          /\ UNCHANGED mailbox
       \/ \E e \in Messages : SmtpRaise("quit", e, "dropped")

(* a fallback that prints the notice and drops the report *)
FallbackNoticeOnly(text) == <<Notice(<<"Email failed, dumping report:">>)>>

(* what main prints when send_email returned False *)
FallbackOutput(text) == <<Notice(<<"Email failed, dumping report:">>), Body(text)>>

SendResult ==
    /\ pc = "send_result"
    /\ stdout' = IF sent = "True"
                 THEN Append(stdout, Notice(<<"Report sent to ", EMAIL_TO>>))
                 ELSE stdout \o FallbackOutput(report_text)
    /\ pc' = "done"
    /\ UNCHANGED <<args_stdout, report, controller, calls, failed,
                   report_text, subject, server, mailbox, sent>>

----------------------------------------------------------------------------
(* One run of main *)

Init ==
    /\ pc = "main"
    /\ args_stdout \in BOOLEAN
    /\ report = << >>
    /\ controller = "none"
    /\ calls = << >>
    /\ failed = {}
    /\ report_text = << >>
    /\ subject = << >>
    /\ server = "none"
    /\ mailbox = << >>
    /\ stdout = << >>
    /\ sent = "unset"

Next ==
    \/ NewReport
    \/ FromPort
    \/ Authenticate
    \/ GetVersion
    \/ GetUptime
    \/ GetTrafficRead
    \/ GetTrafficWritten
    \/ GetFingerprint
    \/ GetNickname
    \/ GetAddress
    \/ GetOrPort
    \/ GetCircuitEstablished
    \/ GetOrconnStatus
    \/ CheckThresholds
    \/ GetNetworkStatus
    \/ CheckFlags
    \/ GetAccounting
    \/ CloseController
    \/ FormatReport
    \/ SubjectLine
    \/ PrintReport
    \/ SmtpConnect
    \/ StartTls
    \/ Login
    \/ SendMail
    \/ Quit
    \/ SendResult

Spec == Init /\ [][Next]_vars

----------------------------------------------------------------------------
(* format_report_text on its own: the report is any dictionary that holds  *)
(* the four keys get_relay_report starts with and some of the others       *)

FormatWarnings ==
    { <<>>,
      <<CriticalWarning(3)>>,
      <<WarnWarning(75), MissingFlagsWarning({"Valid"})>> }

FormatErrors ==
    { <<>>,
      <<ConnectError("timed out")>>,
      <<NetworkStatusError("timed out")>>,
      <<NetworkStatusError(FailedToConnect)>>,
      <<NetworkStatusError("timed out"), ConnectError("closed")>> }

FullReport(w, e) ==
    [generated |-> 1700000000, hostname |-> "pi", warnings |-> w,
     errors |-> e, nickname |-> "MyRelay", circuits_established |-> TRUE,
     connection_count |-> 75, uptime_seconds |-> 3661,
     uptime_human |-> format_duration(3661), bytes_read |-> 1152,
     traffic_read_human |-> format_bytes(1152),
     flags |-> <<"Running", "Valid">>,
     fingerprint |-> "9695DFC35FFEB861329B9F1AB04C46397020CE31"]

OptionalKeys == DOMAIN FullReport(<<>>, <<>>) \ BaseKeys

FormatInputs ==
    { [k \in BaseKeys \cup K |-> FullReport(w, e)[k]] :
        K \in SUBSET OptionalKeys, w \in FormatWarnings, e \in FormatErrors }

FormatInit ==
    /\ pc = "format"
    /\ args_stdout = TRUE
    /\ report \in FormatInputs
    /\ controller = "none"
    /\ calls = << >>
    /\ failed = {}
    /\ report_text = << >>
    /\ subject = << >>
    /\ server = "none"
    /\ mailbox = << >>
    /\ stdout = << >>
    /\ sent = "unset"

FormatNext == FormatReport

FormatSpec == FormatInit /\ [][FormatNext]_vars

----------------------------------------------------------------------------
(* Properties *)

(* get_relay_report has returned to main *)
Returned ==
    pc \in {"format", "subject", "print", "smtp_connect", "starttls", "login",
            "sendmail", "quit", "send_result", "done"}

Made(call) == \E i \in DOMAIN calls : calls[i] = call

Succeeded(call) == Made(call) /\ call \notin failed

(* the queries made after authentication and the field each one fills *)
QueryField ==
    [version |-> "version", uptime |-> "uptime_seconds"]
    @@ ("traffic/read" :> "bytes_read")
    @@ ("traffic/written" :> "bytes_written")
    @@ ("fingerprint" :> "fingerprint")
    @@ ("Nickname" :> "nickname")
    @@ ("address" :> "address")
    @@ ("ORPort" :> "or_port")
    @@ ("status/circuit-established" :> "circuits_established")
    @@ ("orconn-status" :> "connection_count")

ErrorsMention(fragment) ==
    \E i \in DOMAIN report["errors"] : \E j \in DOMAIN report["errors"][i] :
        report["errors"][i][j] = fragment

WarningsOfKind(kinds) ==
    SelectSeq(report["warnings"], LAMBDA w : w.kind \in kinds)

(* C1: once authentication has succeeded, every query is made whatever the  *)
(* queries before it did, and every query that answered has its field in   *)
(* the returned report.                                                    *)
C1_QueriesFaultIsolated ==
    (Returned /\ Succeeded("authenticate")) =>
        \A q \in DOMAIN QueryField :
            /\ Made(q)
            /\ q \notin failed => Has(report, QueryField[q])

(* C2: get_relay_report never raises: whatever fails, it goes on until it   *)
(* returns a report that holds generated, hostname, warnings and errors,   *)
(* and a failed connection, authentication or consensus lookup has left    *)
(* its entry in errors.                                                    *)
C2_NeverRaises ==
    /\ pc # "raised"
    /\ ~Returned => ENABLED Next
    /\ Returned =>
        /\ BaseKeys \subseteq DOMAIN report
        /\ ("from_port" \in failed \/ "authenticate" \in failed)
              => /\ ErrorsMention("Failed to connect")
                 /\ ErrorsMention(" to Tor control port: ")
        /\ "network_status" \in failed
              => ErrorsMention("Could not get network status: ")

C2_Witness ==
    /\ Returned
    /\ "network_status" \in failed
    /\ Len(report["errors"]) = 1

(* the threshold check has run *)
ThresholdsChecked ==
    /\ pc \notin {"main", "raised", "check_thresholds"}
    /\ Has(report, "connection_count")

(* C3: the threshold check appends at most one connection warning: the      *)
(* CRITICAL one, naming the count and the critical threshold, below the    *)
(* critical threshold; the WARNING one, naming the count and the warning   *)
(* threshold, from the critical threshold up to the warning threshold;     *)
(* none from the warning threshold on.                                     *)
C3_ThresholdsExclusive ==
    ThresholdsChecked =>
        LET c == report["connection_count"]
            ws == WarningsOfKind({"CRITICAL", "WARNING"})
        IN  /\ Len(ws) <= 1
            /\ c < MIN_CONNECTIONS_CRIT =>
                  ws = <<[kind |-> "CRITICAL", count |-> c,
                          threshold |-> MIN_CONNECTIONS_CRIT]>>
            /\ (MIN_CONNECTIONS_CRIT <= c /\ c < MIN_CONNECTIONS_WARN) =>
                  ws = <<[kind |-> "WARNING", count |-> c,
                          threshold |-> MIN_CONNECTIONS_WARN]>>
            /\ c >= MIN_CONNECTIONS_WARN => ws = <<>>

C3_Witness ==
    /\ pc = "network_status"
    /\ report["connection_count"] = MIN_CONNECTIONS_CRIT - 1
    /\ Len(report["warnings"]) = 1

(* the headings of the formatted text, in order *)
HeadingsOf(text) ==
    LET hs == SelectSeq(text, LAMBDA l : l.kind = "heading")
    IN  [i \in 1..Len(hs) |-> hs[i].text]

KindsOf(text) == [i \in 1..Len(text) |-> text[i].kind]

HasFooter(text) ==
    /\ Len(text) >= 3
    /\ KindsOf(SubSeq(text, Len(text) - 2, Len(text)))
          = <<"rule", "field", "blank">>
    /\ text[Len(text) - 1].label = "Relay search"

(* C4: for a report whose errors mention the failed connection the text is  *)
(* the header, the ALERTS section if there are warnings, and the ERRORS    *)
(* section, and ends there; for any other report the STATUS, RELAY         *)
(* IDENTITY, CONSENSUS FLAGS and TRAFFIC sections and the footer follow,   *)
(* in that order.                                                          *)
C4_ShortCircuit ==
    pc = "subject" =>
        LET w == report["warnings"]
            e == report["errors"]
            alerts == IF w # <<>> THEN <<"ALERTS">> ELSE <<>>
            errors == IF e # <<>> THEN <<"ERRORS">> ELSE <<>>
            front == 6 + (IF w # <<>> THEN 3 + Len(w) ELSE 0)
                       + (IF e # <<>> THEN 3 + Len(e) ELSE 0)
        IN  /\ Len(report_text) >= front
            /\ KindsOf(SubSeq(report_text, 1, 6))
                  = <<"rule", "field", "field", "field", "rule", "blank">>
            /\ IF ErrorsMention("Failed to connect")
               THEN /\ HeadingsOf(report_text) = alerts \o <<"ERRORS">>
                    /\ Len(report_text) = front
                    /\ report_text[front].kind = "blank"
                    /\ report_text[front - 1].kind = "error"
               ELSE /\ HeadingsOf(report_text)
                          = alerts \o errors
                            \o <<"STATUS", "RELAY IDENTITY", "CONSENSUS FLAGS",
                                 "TRAFFIC SINCE RESTART">>
                    /\ report_text[front + 1].kind = "heading"
                    /\ HasFooter(report_text)

C4_Witness ==
    /\ pc = "subject"
    /\ Len(report["errors"]) = 2
    /\ ErrorsMention("Failed to connect")
    /\ report["warnings"] # <<>>
    /\ Has(report, "connection_count")
    /\ Has(report, "fingerprint")

SmtpCalls == {"SMTP", "starttls", "login", "sendmail", "quit"}

(* C5: when main ends, the mail transport has accepted the message and      *)
(* send_email returned True, or the whole report text is on standard       *)
(* output.  A failing step of the mail session never leaves send_email:    *)
(* it returns False, and main prints a notice and then the report text.    *)
(* With --stdout the text is printed and no mail session is opened.  No    *)
(* call is made twice.                                                     *)
C5_ReportNeverLost ==
    /\ pc = "raised" => failed \cap SmtpCalls = {}
    /\ \A i, j \in DOMAIN calls : calls[i] = calls[j] => i = j
    /\ pc = "done" =>
        /\ \/ /\ sent = "True"
              /\ mailbox = <<[subject |-> subject, body |-> report_text]>>
           \/ \E i \in DOMAIN stdout :
                 stdout[i].kind = "body" /\ stdout[i].text = report_text
        /\ args_stdout =>
              /\ Len(stdout) = 1
              /\ stdout[1].kind = "body"
              /\ server = "none"
              /\ \A c \in SmtpCalls : ~Made(c)
        /\ (~args_stdout /\ failed \cap SmtpCalls # {}) =>
              /\ sent = "False"
              /\ Len(stdout) = 3
              /\ KindsOf(stdout) = <<"notice", "notice", "body">>
              /\ stdout[1].text[1] = "Failed to send email: "
              /\ stdout[2].text = <<"Email failed, dumping report:">>
              /\ stdout[3].text = report_text
        /\ (~args_stdout /\ failed \cap SmtpCalls = {}) => sent = "True"

C5_Witness ==
    /\ pc = "done"
    /\ ~args_stdout
    /\ "sendmail" \in failed
    /\ Len(stdout) = 3

(* the expected-flags check has run *)
FlagsChecked ==
    /\ pc \notin {"main", "raised", "network_status", "check_flags"}
    /\ Made("network_status")

(* C6: when the consensus lookup succeeded, a missing-flags warning is      *)
(* appended exactly when {Running, Valid} minus the retrieved flags is     *)
(* non-empty, and it names exactly the flags of that difference.           *)
C6_MissingFlagsIff ==
    (FlagsChecked /\ Succeeded("network_status")) =>
        LET missing == {"Running", "Valid"} \ Range(report["flags"])
            ws == WarningsOfKind({"MISSING_FLAGS"})
        IN  /\ missing # {} <=> ws # <<>>
            /\ ws # <<>> => (Len(ws) = 1 /\ ws[1].flags = missing)

(* C8: when the consensus lookup failed, flags is the placeholder, errors   *)
(* holds exactly one 'Could not get network status' entry, and no          *)
(* missing-flags warning is appended: warnings holds at most the           *)
(* connection warning.                                                     *)
C8_NoFlagCheckOnFailure ==
    (FlagsChecked /\ "network_status" \in failed) =>
        /\ report["flags"] = <<"(unable to retrieve)">>
        /\ Len(report["errors"]) = 1
        /\ report["errors"][1][1] = "Could not get network status: "
        /\ WarningsOfKind({"MISSING_FLAGS"}) = <<>>
        /\ Len(report["warnings"]) <= 1

(* C7: the subject's indicator is the warning one when warnings is          *)
(* non-empty, else the error one when errors is non-empty, else the        *)
(* all-clear one; so the all-clear one goes with two empty lists only.     *)
C7_SubjectPolicy ==
    (Returned /\ pc \notin {"format", "subject"}) =>
        LET w == report["warnings"]
            e == report["errors"]
        IN  /\ w # <<>> => subject[1] = "warning"
            /\ (w = <<>> /\ e # <<>>) => subject[1] = "error"
            /\ (w = <<>> /\ e = <<>>) => subject[1] = "ok"
            /\ subject[1] = "ok" => (w = <<>> /\ e = <<>>)

C7_Witness ==
    /\ pc = "done"
    /\ report["warnings"] # <<>>
    /\ report["errors"] # <<>>
    /\ subject[1] = "warning"

Released(session) == session \in {"none", "closed", "quit", "dropped"}

(* C9: every session is released before the operation that opened it        *)
(* returns: the control session when get_relay_report returns, the mail    *)
(* session when send_email returns, whatever failed in between.            *)
C9_SessionsReleased ==
    /\ Returned => Released(controller)
    /\ pc \in {"send_result", "done"} => Released(server)

(* C10: a returned report whose errors mention the failed connection comes  *)
(* from a failed connection or authentication and holds nothing but        *)
(* generated, hostname, warnings and errors, with no warning and one       *)
(* error.                                                                  *)
C10_ConnectErrorMeansEmptyReport ==
    (Returned /\ ErrorsMention("Failed to connect")) =>
        /\ "from_port" \in failed \/ "authenticate" \in failed
        /\ DOMAIN report = BaseKeys
        /\ report["warnings"] = <<>>
        /\ Len(report["errors"]) = 1

====
